---- MODULE Spec2Model ----
(***************************************************************************)
(* Model of src/api/doc_controller.py: the bounded concurrent image        *)
(* translators (translate_images_text_batch, translate_images_image_batch) *)
(* the document assembler (combine_document_with_images), the format       *)
(* readers (read_document) and the upload and translate endpoints.         *)
(*                                                                         *)
(* A Python str is a sequence of tokens.  A token is a record              *)
(* [kind, a, b]: kind "text" is the literal fragment a[1]; kind "img" is   *)
(* the Markdown image reference ![a](b), a and b being sequences of        *)
(* string fragments.  The source's Chinese literals are written in ASCII:  *)
(* "translate failed: " is the prefix of lines 491/569, "**image           *)
(* translation:** " the label of line 672, "## original content" and       *)
(* "## translated content" the headers of lines 678/681, "--- page n ---"  *)
(* the page header of line 189, "(translated)" the suffix of line 841.     *)
(* A file name is a sequence of fragments whose last one is the suffix.    *)
(* Requests are served one after the other.                                *)
(***************************************************************************)
EXTENDS Integers, Sequences, FiniteSets, TLC

VARIABLES bpc, mode, images, client, tasks, semaphore, trace, processed_results

VARIABLES apc, original_content, translated_content, original_images,
          image_translations, assets_dir, written, image_map,
          processed_original_content, processed_translated_content,
          markdown_content, asset_files, combine_calls

bvars == <<bpc, mode, images, client, tasks, semaphore, trace, processed_results>>

avars == <<apc, original_content, translated_content, original_images,
           image_translations, assets_dir, written, image_map,
           processed_original_content, processed_translated_content,
           markdown_content, asset_files, combine_calls>>

\* the device directory, the endpoint's position and its locals
VARIABLES tpc, requests, next_id, device_dir, fs_log, response,
          file_path, doc_content, extracted_images, translated_text, caught

pvars == <<tpc, requests, next_id, device_dir, fs_log, response,
           file_path, doc_content, extracted_images, translated_text, caught>>

vars == <<bvars, avars, pvars>>

(* ---------------------------- bounds ----------------------------------- *)
MaxImages == 3
MaxAsmImages == 2
MaxRequests == 4
MaxField == 2

(* ------------------------ program constants ---------------------------- *)
max_workers == 10
SemaphorePermits == 10
max_retries == 3
delay == 1

(* ------------------------------ values --------------------------------- *)
T(s) == [kind |-> "text", a |-> <<s>>, b |-> <<>>]

Img(alt, target) == [kind |-> "img", a |-> alt, b |-> target]

Str(chars) == [type |-> "str", chars |-> chars]

ImageInfo(image_data, position, image_id, format) ==
    [type |-> "ImageInfo", image_data |-> image_data, position |-> position,
     image_id |-> image_id, format |-> format]

\* a position as _read_pdf builds it
PdfPosition(page, index, xref) ==
    [page |-> page, index |-> index, rect |-> "None", xref |-> xref]

ImageA == ImageInfo("bytesA", PdfPosition(1, 0, 7), <<"idA">>, "png")
ImageB == ImageInfo("bytesB", PdfPosition(1, 1, 8), <<"idB">>, "png")

\* a position as _read_docx builds it
DocxPosition(filename, size) == [filename |-> filename, size |-> size]

\* a second image at the position of ImageA, and an image of a Word document
ImageC == ImageInfo("bytesC", PdfPosition(1, 0, 7), <<"idC">>, "jpg")
ImageW == ImageInfo("bytesW", DocxPosition("word/media/image1.jpg", 4), <<"idW">>, "jpg")

BatchImagePool == {ImageA, ImageB}
AsmImagePool == {ImageA, ImageB, ImageC, ImageW}

RECURSIVE SeqsUpTo(_, _)
SeqsUpTo(S, n) ==
    IF n = 0 THEN {<<>>}
    ELSE LET shorter == SeqsUpTo(S, n - 1)
         IN  shorter \cup {Append(s, e) : s \in {q \in shorter : Len(q) = n - 1}, e \in S}

(* --------------------- the Translation Client -------------------------- *)
ServerErrorMsg == <<T("Error code: "), T("500"), T(" - overloaded")>>
AuthErrorMsg == <<T("Error code: 401 - invalid_api_key")>>

ErrorMsgs == {ServerErrorMsg, AuthErrorMsg}

Ok(content) == [kind |-> "ok", body |-> content]
Error(msg) == [kind |-> "error", body |-> msg]

\* response.choices[0].message.content for the given image
Completion(image) == <<T("translation of "), T(image.image_data)>>

\* what one chat.completions.create call can do; an overloaded backend
\* answers every call with a server error
ClientOutcomes(image) ==
    IF client = "overloaded" THEN {Error(ServerErrorMsg)}
    ELSE {Ok(Completion(image))} \cup {Error(m) : m \in ErrorMsgs}

(* ------------------------------ tasks ---------------------------------- *)
NewTask == [st |-> "created", attempt |-> 0, value |-> Str(<<>>)]

CallEvent(outcome) == [ev |-> "call", kind |-> outcome.kind, body |-> outcome.body, secs |-> 0]
SleepEvent(secs) == [ev |-> "sleep", kind |-> "", body |-> <<>>, secs |-> secs]

N == Len(images)

Resolved(i) == tasks[i].st \in {"returned", "raised"}

\* the event loop runs the first step of the gathered tasks in list order
FirstStepTurn(i) == tasks[i].st = "created" /\ \A j \in 1..(i - 1) : tasks[j].st # "created"

\* variant: the backoff is a blocking sleep, no other task runs before the
\* sleeping task has retried
ImageTurn_blocking_sleep(i) ==
    /\ tasks[i].st \in {"created", "sleeping"}
    /\ \A j \in (1..N) \ {i} : tasks[j].st # "sleeping"
    /\ \A j \in 1..(i - 1) : tasks[j].st # "created"

\* image mode: every client call blocks the event loop, so the sleeps of one
\* retry round end in the order they began, after the first steps of all
\* tasks: the loop resumes the unresolved task with the fewest attempts,
\* the lowest index first
ImageTurn(i) ==
    /\ tasks[i].st \in {"created", "sleeping"}
    /\ \A j \in (1..N) \ {i} :
          \/ Resolved(j)
          \/ tasks[j].attempt > tasks[i].attempt
          \/ tasks[j].attempt = tasks[i].attempt /\ j > i

retryable_errors == {"500", "InternalServiceError", "rate_limit", "timeout", "InternalServerError"}

\* variant: every error is retried
IsRetryable_always(error_msg) == TRUE

\* any(error in error_msg for error in retryable_errors)
IsRetryable(error_msg) ==
    \E k \in 1..Len(error_msg) : \E error \in retryable_errors : error_msg[k] = T(error)

RECURSIVE Pow2(_)
Pow2(n) == IF n = 0 THEN 1 ELSE 2 * Pow2(n - 1)

(* --------------------------- batch entry ------------------------------- *)
BatchInputs ==
    {<<imgs, "any">> : imgs \in SeqsUpTo(BatchImagePool, MaxImages)}
        \cup {<<[i \in 1..(max_workers + 1) |-> ImageA], "overloaded">>}

StartBatch(m, imgs, c) ==
    /\ mode' = m
    /\ images' = imgs
    /\ client' = c
    /\ IF imgs = <<>>
       THEN /\ bpc' = "returned"
            /\ processed_results' = <<>>
            /\ tasks' = <<>>
            /\ trace' = <<>>
       ELSE /\ bpc' = "running"
            /\ processed_results' = <<>>
            /\ tasks' = [i \in 1..Len(imgs) |-> NewTask]
            /\ trace' = [i \in 1..Len(imgs) |-> <<>>]
    /\ semaphore' = [value |-> SemaphorePermits, waiters |-> <<>>]
    /\ UNCHANGED avars

\* a call of the batch on its own
translate_images_text_batch ==
    /\ bpc = "idle" /\ apc = "idle" /\ tpc = "idle" /\ requests = 0
    /\ \E in \in BatchInputs : StartBatch("text", in[1], in[2])
    /\ UNCHANGED pvars

translate_images_image_batch ==
    /\ bpc = "idle" /\ apc = "idle" /\ tpc = "idle" /\ requests = 0
    /\ \E in \in BatchInputs : StartBatch("image", in[1], in[2])
    /\ UNCHANGED pvars

(* ----------------------------- text mode ------------------------------- *)
\* variant: the client call is submitted without taking a permit
TextTaskStart_no_gate(i) ==
    /\ bpc = "running" /\ mode = "text"
    /\ FirstStepTurn(i)
    /\ tasks' = [tasks EXCEPT ![i].st = "calling"]
    /\ UNCHANGED <<bpc, mode, images, client, semaphore, trace, processed_results>>
    /\ UNCHANGED avars
    /\ UNCHANGED pvars

\* translate_with_semaphore up to its first suspension: acquire a permit
\* and submit the client call, or queue on the semaphore
TextTaskStart(i) ==
    /\ bpc = "running" /\ mode = "text"
    /\ FirstStepTurn(i)
    /\ IF semaphore.value > 0
       THEN /\ semaphore' = [semaphore EXCEPT !.value = @ - 1]
            /\ tasks' = [tasks EXCEPT ![i].st = "calling"]
       ELSE /\ semaphore' = [semaphore EXCEPT !.waiters = Append(@, i)]
            /\ tasks' = [tasks EXCEPT ![i].st = "semwait"]
    /\ UNCHANGED <<bpc, mode, images, client, trace, processed_results>>
    /\ UNCHANGED avars
    /\ UNCHANGED pvars

\* a queued task gets a released permit and submits its client call
TextTaskAcquire(i) ==
    /\ bpc = "running" /\ mode = "text"
    /\ tasks[i].st = "semwait"
    /\ semaphore.waiters # <<>> /\ Head(semaphore.waiters) = i
    /\ semaphore.value > 0
    /\ semaphore' = [value |-> semaphore.value - 1, waiters |-> Tail(semaphore.waiters)]
    /\ tasks' = [tasks EXCEPT ![i].st = "calling"]
    /\ UNCHANGED <<bpc, mode, images, client, trace, processed_results>>
    /\ UNCHANGED avars
    /\ UNCHANGED pvars

\* variant: a failed call is repeated at once, up to five calls
TextTaskResume_retry(i, outcome) ==
    /\ bpc = "running" /\ mode = "text"
    /\ tasks[i].st = "calling"
    /\ trace' = [trace EXCEPT ![i] = Append(@, CallEvent(outcome))]
    /\ IF outcome.kind = "error" /\ Len(trace[i]) < 4
       THEN UNCHANGED <<tasks, semaphore>>
       ELSE /\ tasks' = [tasks EXCEPT ![i] =
                           IF outcome.kind = "ok"
                           THEN [@ EXCEPT !.st = "returned", !.value = Str(outcome.body)]
                           ELSE [@ EXCEPT !.st = "raised", !.value = Str(outcome.body)]]
            /\ semaphore' = [semaphore EXCEPT !.value = @ + 1]
    /\ UNCHANGED <<bpc, mode, images, client, processed_results>>
    /\ UNCHANGED avars
    /\ UNCHANGED pvars

\* the client call of task i completes; translate_single_image returns the
\* content or re-raises, and leaving "async with" releases the permit
TextTaskResume(i, outcome) ==
    /\ bpc = "running" /\ mode = "text"
    /\ tasks[i].st = "calling"
    /\ trace' = [trace EXCEPT ![i] = Append(@, CallEvent(outcome))]
    /\ tasks' = [tasks EXCEPT ![i] =
                    IF outcome.kind = "ok"
                    THEN [@ EXCEPT !.st = "returned", !.value = Str(outcome.body)]
                    ELSE [@ EXCEPT !.st = "raised", !.value = Str(outcome.body)]]
    /\ semaphore' = [semaphore EXCEPT !.value = @ + 1]
    /\ UNCHANGED <<bpc, mode, images, client, processed_results>>
    /\ UNCHANGED avars
    /\ UNCHANGED pvars

(* ----------------------------- image mode ------------------------------ *)
\* translate_single_image from the end of its client call up to its next
\* suspension (the backoff sleep) or its end.
ImageAttempt(task, image, outcome) ==
    IF task.attempt >= max_retries
    THEN [events |-> <<>>, task |-> [task EXCEPT !.st = "returned", !.value = image]]
    ELSE IF outcome.kind = "ok"
    THEN [events |-> <<CallEvent(outcome)>>,
          task |-> [task EXCEPT !.st = "returned",
                        !.value = ImageInfo(image.image_data, image.position,
                                            image.image_id \o <<"_translated">>,
                                            image.format)]]
    ELSE IF IsRetryable(outcome.body) /\ task.attempt < max_retries - 1
    THEN [events |-> <<CallEvent(outcome), SleepEvent(delay * Pow2(task.attempt))>>,
          task |-> [task EXCEPT !.st = "sleeping", !.attempt = @ + 1]]
    ELSE [events |-> <<CallEvent(outcome)>>,
          task |-> [task EXCEPT !.st = "raised", !.value = Str(outcome.body)]]

\* no client call is blocking the event loop
LoopFree == \A j \in DOMAIN tasks : ~(mode = "image" /\ tasks[j].st = "calling")

\* the task gets the event loop and enters future.result(): from here to
\* the end of the call no other coroutine runs
ImageCallStart(i) ==
    /\ bpc = "running" /\ mode = "image"
    /\ LoopFree
    /\ ImageTurn(i)
    /\ tasks' = [tasks EXCEPT ![i].st = "calling"]
    /\ UNCHANGED <<bpc, mode, images, client, semaphore, trace, processed_results>>
    /\ UNCHANGED avars
    /\ UNCHANGED pvars

\* variant: a successful task renames the input record and returns it
ImageTaskRun_in_place(i, outcome) ==
    /\ bpc = "running" /\ mode = "image"
    /\ tasks[i].st = "calling"
    /\ LET r == ImageAttempt(tasks[i], images[i], outcome)
       IN  /\ tasks' = [tasks EXCEPT ![i] = r.task]
           /\ trace' = [trace EXCEPT ![i] = @ \o r.events]
           /\ images' = IF r.task.st = "returned"
                        THEN [images EXCEPT ![i] = r.task.value]
                        ELSE images
    /\ UNCHANGED <<bpc, mode, client, semaphore, processed_results>>
    /\ UNCHANGED avars
    /\ UNCHANGED pvars

\* the blocking call of task i ends
ImageTaskRun(i, outcome) ==
    /\ bpc = "running" /\ mode = "image"
    /\ tasks[i].st = "calling"
    /\ LET r == ImageAttempt(tasks[i], images[i], outcome)
       IN  /\ tasks' = [tasks EXCEPT ![i] = r.task]
           /\ trace' = [trace EXCEPT ![i] = @ \o r.events]
    /\ UNCHANGED <<bpc, mode, images, client, semaphore, processed_results>>
    /\ UNCHANGED avars
    /\ UNCHANGED pvars

(* ------------------------- result collection --------------------------- *)
FailurePrefix == T("translate failed: ")

\* one slot of processed_results (lines 488-493, 566-571)
ProcessResult(task) ==
    IF task.st = "raised" THEN Str(<<FailurePrefix>> \o task.value.chars)
    ELSE task.value

\* variant: failed tasks are left out of the list
Gather_drop_failed ==
    /\ bpc = "running"
    /\ \A i \in 1..N : Resolved(i)
    /\ processed_results' =
           LET all == [i \in 1..N |-> tasks[i]]
               kept == SelectSeq(all, LAMBDA t : t.st = "returned")
           IN  [k \in 1..Len(kept) |-> ProcessResult(kept[k])]
    /\ bpc' = "returned"
    /\ UNCHANGED <<mode, images, client, tasks, semaphore, trace>>
    /\ UNCHANGED avars
    /\ UNCHANGED pvars

\* variant: gather without return_exceptions, the first exception leaves
\* the batch
Gather_propagate ==
    /\ bpc = "running"
    /\ \A i \in 1..N : Resolved(i)
    /\ IF \E i \in 1..N : tasks[i].st = "raised"
       THEN bpc' = "raised" /\ UNCHANGED processed_results
       ELSE /\ processed_results' = [i \in 1..N |-> ProcessResult(tasks[i])]
            /\ bpc' = "returned"
    /\ UNCHANGED <<mode, images, client, tasks, semaphore, trace>>
    /\ UNCHANGED avars
    /\ UNCHANGED pvars

\* variant: the batch returns as soon as one task is resolved
Gather_first_completed ==
    /\ bpc = "running"
    /\ \E i \in 1..N : Resolved(i)
    /\ processed_results' = [i \in 1..N |-> ProcessResult(tasks[i])]
    /\ bpc' = "returned"
    /\ UNCHANGED <<mode, images, client, tasks, semaphore, trace>>
    /\ UNCHANGED avars
    /\ UNCHANGED pvars

\* asyncio.gather(*tasks, return_exceptions=True) has every result
Gather ==
    /\ bpc = "running"
    /\ \A i \in 1..N : Resolved(i)
    /\ processed_results' = [i \in 1..N |-> ProcessResult(tasks[i])]
    /\ bpc' = "returned"
    /\ UNCHANGED <<mode, images, client, tasks, semaphore, trace>>
    /\ UNCHANGED avars
    /\ UNCHANGED pvars

(* --------------------------- the assembler ----------------------------- *)
\* str.replace(old, new) on a sequence of fragments or of tokens
RECURSIVE Replace(_, _, _)
Replace(s, old, new) ==
    IF s = <<>> THEN <<>>
    ELSE (IF Head(s) = old THEN new ELSE <<Head(s)>>) \o Replace(Tail(s), old, new)

\* position['page'], position['index'] and position['xref'] raise KeyError
\* unless the position has the three keys
HasMarkerFields(position) == {"page", "index", "xref"} \subseteq DOMAIN position

\* variant: the fields are written without the "-" between them
ImgKey_no_separator(position) ==
    <<"image-", ToString(position.page), ToString(position.index),
      ToString(position.xref), ".png">>

\* img_key = f"image-{page}-{index}-{xref}.png" (line 642)
ImgKey(position) ==
    <<"image-", ToString(position.page), "-", ToString(position.index), "-",
      ToString(position.xref), ".png">>

\* f"![{img_key}]({img_key})"
Marker(key) == Img(key, key)

\* f"{img_key.replace('.png', '')}-original.{orig_img.format}"
OrigFilename(key, format) == Replace(key, ".png", <<>>) \o <<"-original.", format>>

\* os.path.join(assets_dir, orig_filename), relative to output_dir
OrigPath(filename) == <<"assets/">> \o filename

\* variant: the entry of a token that is already in the map is kept
DictSet_keep_first(map, entry) ==
    IF \E k \in 1..Len(map) : map[k].key = entry.key THEN map
    ELSE Append(map, entry)

\* image_map[img_key] = {...}: a dict keeps the place of a key it already has
DictSet(map, entry) ==
    IF \E k \in 1..Len(map) : map[k].key = entry.key
    THEN [k \in 1..Len(map) |-> IF map[k].key = entry.key THEN entry ELSE map[k]]
    ELSE Append(map, entry)

Min(a, b) == IF a < b THEN a ELSE b

\* the loop of lines 640-655 from pair i on; acc is [image_map, written, raised]
RECURSIVE SaveImages(_, _, _, _)
SaveImages(imgs, trans, i, acc) ==
    IF i > Min(Len(imgs), Len(trans)) THEN acc
    ELSE IF ~HasMarkerFields(imgs[i].position) THEN [acc EXCEPT !.raised = TRUE]
    ELSE LET key == ImgKey(imgs[i].position)
             filename == OrigFilename(key, imgs[i].format)
         IN  SaveImages(imgs, trans, i + 1,
                 [acc EXCEPT
                     !.written = Append(@, [path |-> OrigPath(filename),
                                            data |-> imgs[i].image_data]),
                     !.image_map = DictSet(@, [key |-> key, original |-> filename,
                                               translation |-> trans[i],
                                               position |-> imgs[i].position])])

ImageTranslationLabel == T("\n\n**image translation:** \n")

\* variant: the original section gets the image and the translation text
OriginalReplacement_with_translation(entry) ==
    <<Img(Replace(entry.key, ".png", <<"-original">>), <<"assets/">> \o entry.original),
      ImageTranslationLabel>> \o entry.translation.chars

\* ![{img_key.replace('.png', '-original')}](assets/{img_info['original']})
OriginalReplacement(entry) ==
    <<Img(Replace(entry.key, ".png", <<"-original">>), <<"assets/">> \o entry.original)>>

\* variant: the text of a failed image translation is not shown
TranslatedReplacement_hide_failures(entry) ==
    IF entry.translation.chars # <<>> /\ Head(entry.translation.chars) = FailurePrefix
    THEN OriginalReplacement(entry)
    ELSE OriginalReplacement(entry) \o <<ImageTranslationLabel>> \o entry.translation.chars

\* ![..-original](assets/..) + "\n\n**label** \n" + translation (lines 669-673)
TranslatedReplacement(entry) ==
    OriginalReplacement(entry) \o <<ImageTranslationLabel>> \o entry.translation.chars

\* the loop of lines 659-663 from entry k on
RECURSIVE ReplaceOriginal(_, _, _)
ReplaceOriginal(content, map, k) ==
    IF k > Len(map) THEN content
    ELSE ReplaceOriginal(Replace(content, Marker(map[k].key), OriginalReplacement(map[k])),
                         map, k + 1)

\* the loop of lines 667-674 from entry k on
RECURSIVE ReplaceTranslated(_, _, _)
ReplaceTranslated(content, map, k) ==
    IF k > Len(map) THEN content
    ELSE ReplaceTranslated(Replace(content, Marker(map[k].key), TranslatedReplacement(map[k])),
                           map, k + 1)

OriginalHeader == T("\n## original content\n")
TranslatedHeader == T("\n\n## translated content\n")

Markdown(original, translated) ==
    <<OriginalHeader>> \o original \o <<TranslatedHeader>> \o translated \o <<T("\n\n")>>

KeyA == ImgKey(ImageA.position)
KeyB == ImgKey(ImageB.position)

DocOne == <<T("Page 1\n\n"), Marker(KeyA), T("\n")>>
DocTwo == <<Marker(KeyA), T("text"), Marker(KeyB), Marker(KeyA)>>
DocNone == <<T("no image here")>>

Contents == {DocOne, DocTwo, DocNone}

TranslationPool ==
    {Str(<<T("A red circle.")>>),
     Str(<<T("translate failed: ")>> \o AuthErrorMsg),
     Str(<<T("see "), Marker(KeyB)>>)}

AsmInputs ==
    Contents \X Contents \X SeqsUpTo(AsmImagePool, MaxAsmImages)
        \X SeqsUpTo(TranslationPool, MaxAsmImages)

\* the directory after the writes of one call: open(path, 'wb') replaces
RECURSIVE ApplyWrites(_, _)
ApplyWrites(dir, files) ==
    IF files = <<>> THEN dir
    ELSE ApplyWrites(DictSet(dir, [key |-> Head(files).path, value |-> Head(files).data]),
                     Tail(files))

\* variant: a file that exists is not opened again, the call raises
AssembleOn_no_overwrite(dir, original, translated, imgs, trans) ==
    /\ original_content' = original
    /\ translated_content' = translated
    /\ original_images' = imgs
    /\ image_translations' = trans
    /\ assets_dir' = TRUE
    /\ combine_calls' = combine_calls + 1
    /\ LET saved == SaveImages(imgs, trans, 1,
                               [image_map |-> <<>>, written |-> <<>>, raised |-> FALSE])
           po == ReplaceOriginal(original, saved.image_map, 1)
           pt == ReplaceTranslated(translated, saved.image_map, 1)
           exists == \E k \in 1..Len(dir) : \E w \in 1..Len(saved.written) :
                         dir[k].key = saved.written[w].path
       IN  /\ written' = IF exists THEN <<>> ELSE saved.written
           /\ asset_files' = IF exists THEN dir ELSE ApplyWrites(dir, saved.written)
           /\ image_map' = saved.image_map
           /\ IF saved.raised \/ exists
              THEN /\ apc' = "raised"
                   /\ UNCHANGED <<processed_original_content,
                                  processed_translated_content, markdown_content>>
              ELSE /\ apc' = "returned"
                   /\ processed_original_content' = po
                   /\ processed_translated_content' = pt
                   /\ markdown_content' = Markdown(po, pt)
    /\ UNCHANGED bvars

\* combine_document_with_images with output_dir/assets holding the files dir
AssembleOn(dir, original, translated, imgs, trans) ==
    /\ original_content' = original
    /\ translated_content' = translated
    /\ original_images' = imgs
    /\ image_translations' = trans
    /\ assets_dir' = TRUE
    /\ combine_calls' = combine_calls + 1
    /\ LET saved == SaveImages(imgs, trans, 1,
                               [image_map |-> <<>>, written |-> <<>>, raised |-> FALSE])
           po == ReplaceOriginal(original, saved.image_map, 1)
           pt == ReplaceTranslated(translated, saved.image_map, 1)
       IN  /\ written' = saved.written
           /\ asset_files' = ApplyWrites(dir, saved.written)
           /\ image_map' = saved.image_map
           /\ IF saved.raised
              THEN /\ apc' = "raised"
                   /\ UNCHANGED <<processed_original_content,
                                  processed_translated_content, markdown_content>>
              ELSE /\ apc' = "returned"
                   /\ processed_original_content' = po
                   /\ processed_translated_content' = pt
                   /\ markdown_content' = Markdown(po, pt)
    /\ UNCHANGED bvars

Assemble(original, translated, imgs, trans) ==
    AssembleOn(asset_files, original, translated, imgs, trans)

\* a call of the assembler on its own
combine_document_with_images ==
    /\ apc = "idle" /\ bpc = "idle" /\ tpc = "idle" /\ requests = 0
    /\ \E in \in AsmInputs : Assemble(in[1], in[2], in[3], in[4])
    /\ UNCHANGED pvars

\* the call repeated with the same arguments, on the directory the first
\* call left or on a directory emptied before
CombineAgain(clean) ==
    /\ apc = "returned" /\ combine_calls = 1
    /\ bpc = "idle" /\ tpc = "idle" /\ requests = 0
    /\ AssembleOn(IF clean THEN <<>> ELSE asset_files,
                  original_content, translated_content, original_images,
                  image_translations)
    /\ UNCHANGED pvars

(* ------------------------- the format readers -------------------------- *)
\* a stored file: its suffix and what the reader's library finds in it
Doc(ext, corrupt, pages, text, media) ==
    [ext |-> ext, corrupt |-> corrupt, pages |-> pages, text |-> text, media |-> media]

\* a page of a PDF: page.get_text() and page.get_images()
PdfPage(text, image_list) == [text |-> text, image_list |-> image_list]

PdfImage(xref, data, cmyk) == [xref |-> xref, data |-> data, cmyk |-> cmyk]

\* an entry of the .docx archive under word/media/
DocxMedia(filename, suffix, data, size) ==
    [filename |-> filename, suffix |-> suffix, data |-> data, size |-> size]

\* an <img> tag with a local src, and whether the file it names exists
HtmlTag(src, suffix, alt, data, exists) ==
    [src |-> src, suffix |-> suffix, alt |-> alt, data |-> data, exists |-> exists]

\* a position as _read_html builds it
HtmlPosition(src, alt, index) == [src |-> src, alt |-> alt, index |-> index]

supported_formats == {".pdf", ".docx", ".doc", ".txt", ".md", ".html", ".htm"}

RECURSIVE Concat(_)
Concat(seqs) == IF seqs = <<>> THEN <<>> ELSE Head(seqs) \o Concat(Tail(seqs))

ReadOk(text, imgs) == [raised |-> FALSE, content |-> text, images |-> imgs]

ReadRaised == [raised |-> TRUE, content |-> <<>>, images |-> <<>>]

\* the images of one page: the entries of image_list that are not CMYK,
\* img_index counting the skipped ones too (lines 150-177)
PageImages(page, page_num) ==
    LET kept == SelectSeq([k \in 1..Len(page.image_list) |-> k],
                          LAMBDA k : ~page.image_list[k].cmyk)
    IN  [j \in 1..Len(kept) |->
            ImageInfo(page.image_list[kept[j]].data,
                      PdfPosition(page_num, kept[j] - 1, page.image_list[kept[j]].xref),
                      <<"uuid">>, "png")]

\* img_marker = f"image-{page}-{index}-{xref}.png" (lines 186 and 195)
img_marker(position) ==
    <<"image-", ToString(position.page), "-", ToString(position.index), "-",
      ToString(position.xref), ".png">>

PageHeader(page_num) == <<T("--- page "), T(ToString(page_num)), T(" ---\n\n")>>

\* the text of one page with its markers (lines 180-199)
PageContent(page, page_num) ==
    LET page_images == PageImages(page, page_num)
        n == Len(page_images)
        marker(j) == Img(img_marker(page_images[j].position),
                         img_marker(page_images[j].position))
    IN  IF page.text # <<>>
        THEN PageHeader(page_num) \o page.text
                 \o Concat([j \in 1..n |->
                        IF j < n THEN <<T("\n\n"), marker(j), T("\n")>>
                        ELSE <<T("\n\n"), marker(j)>>])
                 \o <<T("\n\n")>>
        ELSE IF n > 0
        THEN PageHeader(page_num)
                 \o Concat([j \in 1..n |->
                        IF j = 1 THEN <<marker(j)>> ELSE <<T("\n\n"), marker(j)>>])
                 \o <<T("\n\n")>>
        ELSE PageHeader(page_num) \o <<T("[no text on this page]"), T("\n\n")>>

read_pdf(doc) ==
    LET text == Concat([p \in 1..Len(doc.pages) |-> PageContent(doc.pages[p], p)])
        imgs == Concat([p \in 1..Len(doc.pages) |-> PageImages(doc.pages[p], p)])
    IN  ReadOk(IF text = <<>> THEN <<T("[warning] no text could be extracted from the PDF")>>
               ELSE text,
               imgs)

\* the text of the paragraphs and tables, then the pictures of the archive
read_docx(doc) ==
    LET kept == SelectSeq(doc.media,
                          LAMBDA m : m.suffix \in {".png", ".jpg", ".jpeg", ".gif", ".bmp"})
        format_name(m) ==
            CASE m.suffix = ".png" -> "png"
              [] m.suffix = ".jpg" -> "jpg"
              [] m.suffix = ".jpeg" -> "jpg"
              [] m.suffix = ".gif" -> "gif"
              [] m.suffix = ".bmp" -> "bmp"
    IN  ReadOk(doc.text,
               [j \in 1..Len(kept) |->
                   ImageInfo(kept[j].data, DocxPosition(kept[j].filename, kept[j].size),
                             <<"uuid">>, format_name(kept[j]))])

read_txt(doc) == ReadOk(doc.text, <<>>)

read_markdown(doc) == ReadOk(doc.text, <<>>)

\* soup.get_text(), then the <img> tags whose file exists
read_html(doc) ==
    LET kept == SelectSeq([k \in 1..Len(doc.media) |-> k], LAMBDA k : doc.media[k].exists)
        format_name(m) ==
            IF m.suffix \in {".jpg", ".jpeg"} THEN "jpg"
            ELSE IF m.suffix = ".gif" THEN "gif"
            ELSE IF m.suffix = ".bmp" THEN "bmp"
            ELSE "png"
    IN  ReadOk(doc.text,
               [j \in 1..Len(kept) |->
                   ImageInfo(doc.media[kept[j]].data,
                             HtmlPosition(doc.media[kept[j]].src, doc.media[kept[j]].alt,
                                          kept[j] - 1),
                             <<"uuid">>, format_name(doc.media[kept[j]]))])

\* read_document on a file that exists
read_document(doc) ==
    IF doc.ext \notin supported_formats THEN ReadRaised
    ELSE IF doc.corrupt THEN ReadRaised
    ELSE CASE doc.ext = ".pdf" -> read_pdf(doc)
           [] doc.ext \in {".docx", ".doc"} -> read_docx(doc)
           [] doc.ext = ".txt" -> read_txt(doc)
           [] doc.ext = ".md" -> read_markdown(doc)
           [] doc.ext \in {".html", ".htm"} -> read_html(doc)

PdfTwo ==
    Doc(".pdf", FALSE,
        <<PdfPage(<<T("Page one")>>,
                  <<PdfImage(7, "bytesA", FALSE), PdfImage(9, "bytesK", TRUE),
                    PdfImage(8, "bytesB", FALSE)>>)>>,
        <<>>, <<>>)

\* another PDF whose only image has the page, index and xref of PdfTwo's first
PdfOther ==
    Doc(".pdf", FALSE,
        <<PdfPage(<<>>, <<PdfImage(7, "bytesC", FALSE)>>), PdfPage(<<>>, <<>>)>>,
        <<>>, <<>>)

DocxOne ==
    Doc(".docx", FALSE, <<>>, <<T("Word text\n")>>,
        <<DocxMedia("word/media/image1.jpeg", ".jpeg", "bytesW", 4),
          DocxMedia("word/media/chart.emf", ".emf", "bytesE", 9)>>)

HtmlOne ==
    Doc(".html", FALSE, <<>>, <<T("Html text")>>,
        <<HtmlTag("gone.png", ".png", "", "", FALSE),
          HtmlTag("pic.gif", ".gif", "a picture", "bytesH", TRUE)>>)

TxtNote == Doc(".txt", FALSE, <<>>, <<T("plain text")>>, <<>>)

MdNote == Doc(".md", FALSE, <<>>, <<T("# title")>>, <<>>)

CorruptPdf == Doc(".pdf", TRUE, <<>>, <<>>, <<>>)

Unsupported == Doc(".exe", FALSE, <<>>, <<>>, <<>>)

ReaderDocs == {PdfTwo, PdfOther, DocxOne, HtmlOne, TxtNote, MdNote, CorruptPdf}

\* the files a client uploads; a document without images comes into the
\* directory as the .md output of a translate or summarize request
UploadDocs == {PdfTwo, PdfOther, DocxOne, CorruptPdf, Unsupported}

(* --------------------- upload and translate endpoints ------------------ *)
\* str(uuid.uuid4())
FileId(k) == "uuid" \o ToString(k)

\* Path(file_path).stem
Stem(name) == SubSeq(name, 1, Len(name) - 1)

\* f"{original_filename}(...).md" of line 841
TranslatedFilename(name) == Stem(name) \o <<"(translated)", ".md">>

\* no request is being served
Quiescent ==
    tpc \in {"idle", "done", "failed", "summarized", "summarize_failed",
             "deleted", "delete_failed"}

\* what the handler's "except Exception as e" clause caught
NothingCaught == "none"
HTTPException(status_code) == "HTTPException " \o ToString(status_code)
OtherException == "Exception"

CanServe ==
    /\ Quiescent
    /\ requests < MaxRequests
    /\ requests > 0 \/ (bpc = "idle" /\ apc = "idle")

\* the locals of the calls of an earlier request are gone
FreshBatch ==
    /\ bpc' = "idle" /\ mode' = "text" /\ images' = <<>> /\ client' = "any"
    /\ tasks' = <<>> /\ trace' = <<>> /\ processed_results' = <<>>
    /\ semaphore' = [value |-> SemaphorePermits, waiters |-> <<>>]

FreshAssembler ==
    /\ apc' = "idle" /\ original_content' = <<>> /\ translated_content' = <<>>
    /\ original_images' = <<>> /\ image_translations' = <<>>
    /\ written' = <<>> /\ image_map' = <<>> /\ combine_calls' = 0
    /\ UNCHANGED <<assets_dir, asset_files>>
    /\ processed_original_content' = <<>> /\ processed_translated_content' = <<>>
    /\ markdown_content' = <<>>

\* POST /upload: the whole handler (lines 731-790)
upload_file(doc) ==
    /\ CanServe
    /\ requests' = requests + 1
    /\ tpc' = "idle"
    /\ FreshBatch /\ FreshAssembler
    /\ file_path' = <<>> /\ translated_text' = <<>>
    /\ IF doc.ext \notin supported_formats
       THEN /\ caught' = HTTPException(400)
            /\ response' = 500
            /\ doc_content' = <<>> /\ extracted_images' = <<>>
            /\ UNCHANGED <<next_id, device_dir, fs_log>>
       ELSE LET new_filename == <<FileId(next_id), doc.ext>>
                read == read_document(doc)
            IN  /\ device_dir' = DictSet(device_dir, [key |-> new_filename, value |-> doc])
                /\ fs_log' = Append(fs_log, [path |-> new_filename, data |-> doc,
                                             by |-> "upload_file", request |-> requests + 1])
                /\ next_id' = next_id + 1
                /\ doc_content' = read.content
                /\ extracted_images' = read.images
                /\ caught' = NothingCaught
                /\ response' = 200

\* POST /translate up to the call of the text translation: the lookup of
\* lines 815-823 and read_document
TranslateRead(file_id) ==
    /\ CanServe
    /\ requests' = requests + 1
    /\ FreshBatch /\ FreshAssembler
    /\ translated_text' = <<>>
    /\ UNCHANGED <<next_id, device_dir, fs_log>>
    /\ LET found == {k \in 1..Len(device_dir) : device_dir[k].key[1] = file_id}
       IN  IF found = {}
           THEN /\ caught' = HTTPException(404)
                /\ tpc' = "failed" /\ response' = 500
                /\ file_path' = <<>> /\ doc_content' = <<>> /\ extracted_images' = <<>>
           ELSE \E k \in found :
                   LET read == read_document(device_dir[k].value)
                   IN  /\ file_path' = device_dir[k].key
                       /\ doc_content' = read.content
                       /\ extracted_images' = read.images
                       /\ IF read.raised
                          THEN tpc' = "failed" /\ response' = 500
                               /\ caught' = OtherException
                          ELSE tpc' = "read" /\ response' = 0
                               /\ caught' = NothingCaught

\* what the full-text translation returns for a text
TranslatedText(text) == <<T("[translated] ")>> \o text

\* doc_processor.translate_document returns or raises (lines 362-393); with
\* images the batch is submitted at once (lines 834-836)
TranslateText(outcome) ==
    /\ tpc = "read"
    /\ IF outcome = "error"
       THEN /\ tpc' = "failed" /\ response' = 500
            /\ caught' = OtherException
            /\ UNCHANGED <<translated_text, bvars, avars>>
       ELSE /\ tpc' = "translated"
            /\ translated_text' = TranslatedText(doc_content)
            /\ UNCHANGED <<response, caught>>
            /\ IF extracted_images # <<>>
               THEN StartBatch("text", extracted_images, "any")
               ELSE UNCHANGED <<bvars, avars>>
    /\ UNCHANGED <<requests, next_id, device_dir, fs_log, file_path, doc_content,
                   extracted_images>>

LogAssets(files) ==
    [k \in 1..Len(files) |-> [path |-> files[k].path, data |-> files[k].data,
                              by |-> "combine_document_with_images",
                              request |-> requests]]

\* variant: the assembler is called without awaiting the batch
TranslateCombine_early ==
    /\ tpc = "translated"
    /\ Assemble(doc_content, translated_text, extracted_images, processed_results)
    /\ fs_log' = fs_log \o LogAssets(written')
    /\ IF apc' = "raised"
       THEN tpc' = "failed" /\ response' = 500 /\ caught' = OtherException
       ELSE tpc' = "combined" /\ UNCHANGED <<response, caught>>
    /\ UNCHANGED <<requests, next_id, device_dir, file_path, doc_content,
                   extracted_images, translated_text>>

\* variant: when the assembler raises, the translated text is saved as the
\* output
TranslateCombine_partial ==
    /\ tpc = "translated"
    /\ extracted_images = <<>> \/ bpc = "returned"
    /\ Assemble(doc_content, translated_text, extracted_images, processed_results)
    /\ IF apc' = "raised"
       THEN /\ tpc' = "failed" /\ response' = 500 /\ caught' = OtherException
            /\ device_dir' = DictSet(device_dir,
                                 [key |-> TranslatedFilename(file_path),
                                  value |-> Doc(".md", FALSE, <<>>, translated_text, <<>>)])
            /\ fs_log' = fs_log \o LogAssets(written')
                   \o <<[path |-> TranslatedFilename(file_path), data |-> translated_text,
                         by |-> "translate_document", request |-> requests]>>
       ELSE /\ tpc' = "combined" /\ UNCHANGED <<response, device_dir, caught>>
            /\ fs_log' = fs_log \o LogAssets(written')
    /\ UNCHANGED <<requests, next_id, file_path, doc_content,
                   extracted_images, translated_text>>

\* the batch has returned (or there was no image): the call of
\* combine_document_with_images of lines 844-846
TranslateCombine ==
    /\ tpc = "translated"
    /\ extracted_images = <<>> \/ bpc = "returned"
    /\ Assemble(doc_content, translated_text, extracted_images, processed_results)
    /\ fs_log' = fs_log \o LogAssets(written')
    /\ IF apc' = "raised"
       THEN tpc' = "failed" /\ response' = 500 /\ caught' = OtherException
       ELSE tpc' = "combined" /\ UNCHANGED <<response, caught>>
    /\ UNCHANGED <<requests, next_id, device_dir, file_path, doc_content,
                   extracted_images, translated_text>>

\* the output file is written and the request answered (lines 849-864)
TranslateWrite ==
    /\ tpc = "combined"
    /\ device_dir' = DictSet(device_dir,
                         [key |-> TranslatedFilename(file_path),
                          value |-> Doc(".md", FALSE, <<>>, markdown_content, <<>>)])
    /\ fs_log' = Append(fs_log, [path |-> TranslatedFilename(file_path),
                                 data |-> markdown_content,
                                 by |-> "translate_document", request |-> requests])
    /\ tpc' = "done" /\ response' = 200
    /\ UNCHANGED <<requests, next_id, file_path, doc_content, extracted_images,
                   translated_text, caught>>
    /\ UNCHANGED <<bvars, avars>>

\* a call of read_document on its own
ReadDocumentCall ==
    /\ tpc = "idle" /\ requests = 0 /\ bpc = "idle" /\ apc = "idle"
    /\ \E doc \in ReaderDocs :
          LET read == read_document(doc)
          IN  /\ doc_content' = read.content
              /\ extracted_images' = read.images
              /\ tpc' = IF read.raised THEN "read_raised" ELSE "read_returned"
              /\ file_path' = <<"document", doc.ext>>
    /\ UNCHANGED <<requests, next_id, device_dir, fs_log, response, translated_text,
                   caught>>
    /\ UNCHANGED <<bvars, avars>>

\* f"{original_filename}(...).md" of line 908
SummaryFilename(name) == Stem(name) \o <<"(summary)", ".md">>

\* what doc_processor.summarize_document returns for a text
SummaryText(text) == <<T("[summary] ")>> \o text

\* POST /summarize: the whole handler (lines 888-930); the model call of
\* summarize_document returns or raises
summarize_document(file_id, outcome) ==
    /\ CanServe
    /\ requests' = requests + 1
    /\ FreshBatch /\ FreshAssembler
    /\ translated_text' = <<>>
    /\ UNCHANGED next_id
    /\ LET found == {k \in 1..Len(device_dir) : device_dir[k].key[1] = file_id}
       IN  IF found = {}
           THEN /\ caught' = HTTPException(404)
                /\ tpc' = "summarize_failed" /\ response' = 500
                /\ file_path' = <<>> /\ doc_content' = <<>> /\ extracted_images' = <<>>
                /\ UNCHANGED <<device_dir, fs_log>>
           ELSE \E k \in found :
                   LET read == read_document(device_dir[k].value)
                       summary == SummaryText(read.content)
                   IN  /\ file_path' = device_dir[k].key
                       /\ doc_content' = read.content
                       /\ extracted_images' = read.images
                       /\ IF read.raised \/ outcome = "error"
                          THEN /\ caught' = OtherException
                               /\ tpc' = "summarize_failed" /\ response' = 500
                               /\ UNCHANGED <<device_dir, fs_log>>
                          ELSE /\ caught' = NothingCaught
                               /\ device_dir' = DictSet(device_dir,
                                      [key |-> SummaryFilename(device_dir[k].key),
                                       value |-> Doc(".md", FALSE, <<>>, summary, <<>>)])
                               /\ fs_log' = Append(fs_log,
                                      [path |-> SummaryFilename(device_dir[k].key),
                                       data |-> summary, by |-> "summarize_document",
                                       request |-> requests + 1])
                               /\ tpc' = "summarized" /\ response' = 200

\* DELETE /delete/{device_id}/{file_id}: the whole handler (lines 1066-1093)
delete_file(file_id) ==
    /\ CanServe
    /\ requests' = requests + 1
    /\ FreshBatch /\ FreshAssembler
    /\ translated_text' = <<>> /\ file_path' = <<>>
    /\ doc_content' = <<>> /\ extracted_images' = <<>>
    /\ UNCHANGED <<next_id, fs_log>>
    /\ LET deleted_files == {k \in 1..Len(device_dir) : device_dir[k].key[1] = file_id}
       IN  /\ device_dir' = SelectSeq(device_dir, LAMBDA e : e.key[1] # file_id)
           /\ IF deleted_files = {}
              THEN caught' = HTTPException(404)
                   /\ tpc' = "delete_failed" /\ response' = 500
              ELSE caught' = NothingCaught
                   /\ tpc' = "deleted" /\ response' = 200

(* --------------------------- specification ----------------------------- *)
Init ==
    /\ bpc = "idle"
    /\ mode = "text"
    /\ images = <<>>
    /\ client = "any"
    /\ tasks = <<>>
    /\ semaphore = [value |-> SemaphorePermits, waiters |-> <<>>]
    /\ trace = <<>>
    /\ processed_results = <<>>
    /\ apc = "idle"
    /\ original_content = <<>>
    /\ translated_content = <<>>
    /\ original_images = <<>>
    /\ image_translations = <<>>
    /\ assets_dir = FALSE
    /\ written = <<>>
    /\ image_map = <<>>
    /\ processed_original_content = <<>>
    /\ processed_translated_content = <<>>
    /\ markdown_content = <<>>
    /\ asset_files = <<>>
    /\ combine_calls = 0
    /\ tpc = "idle"
    /\ caught = NothingCaught
    /\ requests = 0
    /\ next_id = 1
    /\ device_dir = <<>>
    /\ fs_log = <<>>
    /\ response = 0
    /\ file_path = <<>>
    /\ doc_content = <<>>
    /\ extracted_images = <<>>
    /\ translated_text = <<>>

Next ==
    \/ translate_images_text_batch
    \/ translate_images_image_batch
    \/ \E i \in 1..N : TextTaskStart(i)
    \/ \E i \in 1..N : TextTaskAcquire(i)
    \/ \E i \in 1..N : \E o \in ClientOutcomes(images[i]) : TextTaskResume(i, o)
    \/ \E i \in 1..N : ImageCallStart(i)
    \/ \E i \in 1..N : \E o \in ClientOutcomes(images[i]) : ImageTaskRun(i, o)
    \/ Gather
    \/ combine_document_with_images
    \/ \E clean \in BOOLEAN : CombineAgain(clean)
    \/ ReadDocumentCall
    \/ \E doc \in UploadDocs : upload_file(doc)
    \/ \E k \in 1..next_id : TranslateRead(FileId(k))
    \/ \E outcome \in {"ok", "error"} : TranslateText(outcome)
    \/ TranslateCombine
    \/ TranslateWrite
    \/ \E k \in 1..next_id : \E outcome \in {"ok", "error"} :
          summarize_document(FileId(k), outcome)
    \/ \E k \in 1..next_id : delete_file(FileId(k))

Spec == Init /\ [][Next]_vars

(* ---------------------- the batch under fairness ----------------------- *)
\* steps the event loop takes by itself: a ready coroutine is run
LoopStep ==
    \/ \E i \in 1..N : TextTaskStart(i)
    \/ \E i \in 1..N : TextTaskAcquire(i)
    \/ \E i \in 1..N : ImageCallStart(i)
    \/ Gather

\* steps that need the backend: a client call returns or raises
ClientReturns ==
    \/ \E i \in 1..N : \E o \in ClientOutcomes(images[i]) : TextTaskResume(i, o)
    \/ \E i \in 1..N : \E o \in ClientOutcomes(images[i]) : ImageTaskRun(i, o)

BatchNext ==
    \/ translate_images_text_batch
    \/ translate_images_image_batch
    \/ LoopStep
    \/ ClientReturns

\* every client call returns or raises in the end
LiveSpec == Init /\ [][BatchNext]_vars /\ WF_vars(LoopStep) /\ WF_vars(ClientReturns)

\* the backend may leave a call unanswered; the code sets no timeout on
\* create(), future.result() or run_in_executor
HangSpec == Init /\ [][BatchNext]_vars /\ WF_vars(LoopStep)


(* ------------------ the marker token, called on its own ---------------- *)
\* values of page, index and xref, one and two digits long
FieldValues == (0..MaxField) \cup {10 + k : k \in 1..MaxField}

KeyPositions == {PdfPosition(p, i, x) : p \in FieldValues, i \in FieldValues, x \in FieldValues}

\* PDFs of one page with two pictures
KeyDocs ==
    {Doc(".pdf", FALSE,
         <<PdfPage(text, <<PdfImage(x1, "bytesA", c), PdfImage(x2, "bytesB", FALSE)>>)>>,
         <<>>, <<>>) :
        x1 \in FieldValues \ {0}, x2 \in FieldValues \ {0}, c \in BOOLEAN,
        text \in {<<>>, <<T("Page one")>>}}

\* read_document on a PDF
KeyRead ==
    /\ tpc = "idle" /\ requests = 0 /\ bpc = "idle" /\ apc = "idle"
    /\ \E doc \in KeyDocs :
          LET read == read_document(doc)
          IN  /\ doc_content' = read.content
              /\ extracted_images' = read.images
              /\ tpc' = "read_returned"
              /\ file_path' = <<"document", doc.ext>>
    /\ UNCHANGED <<requests, next_id, device_dir, fs_log, response, translated_text,
                   caught>>
    /\ UNCHANGED <<bvars, avars>>

\* combine_document_with_images on what the reader returned
KeyCombineRead ==
    /\ tpc = "read_returned" /\ apc = "idle"
    /\ Assemble(doc_content, doc_content, extracted_images,
                [i \in 1..Len(extracted_images) |-> Str(<<T("A red circle.")>>)])
    /\ UNCHANGED pvars

\* combine_document_with_images on two images of any positions
KeyCombinePair ==
    /\ tpc = "idle" /\ requests = 0 /\ bpc = "idle" /\ apc = "idle"
    /\ \E p \in KeyPositions, q \in KeyPositions :
          Assemble(<<Marker(ImgKey(p)), T("text"), Marker(ImgKey(q))>>,
                   <<T("no image here")>>,
                   <<ImageInfo("bytesA", p, <<"idA">>, "png"),
                     ImageInfo("bytesB", q, <<"idB">>, "png")>>,
                   <<Str(<<T("A red circle.")>>), Str(<<T("A red circle.")>>)>>)
    /\ UNCHANGED pvars

KeyNext == KeyRead \/ KeyCombineRead \/ KeyCombinePair

KeySpec == Init /\ [][KeyNext]_vars

(* ------------------------------ claims --------------------------------- *)
Calls(i) == SelectSeq(trace[i], LAMBDA e : e.ev = "call")

LastCall(i) == Calls(i)[Len(Calls(i))]

\* the spec's transient class: rate limit, timeout, server 5xx
TransientClass == {ServerErrorMsg}

IsTransientFailure(e) == e.ev = "call" /\ e.kind = "error" /\ e.body \in TransientClass

FailureString(msg) == Str(<<T("translate failed: ")>> \o msg)

TranslatedRecord(image) ==
    [type |-> "ImageInfo", image_data |-> image.image_data, position |-> image.position,
     image_id |-> image.image_id \o <<"_translated">>, format |-> image.format]

SuccessValue(image) ==
    IF mode = "text" THEN Str(Completion(image)) ELSE TranslatedRecord(image)

\* C1: a returned batch has exactly one result per input image, and result
\* i is the outcome of the last client call made for image i: its success
\* value, or the failure string of its error.
C1_IndexAligned ==
    bpc = "returned" =>
        /\ Len(processed_results) = Len(images)
        /\ \A i \in 1..Len(images) :
              /\ Calls(i) # <<>>
              /\ processed_results[i] =
                    IF LastCall(i).kind = "ok" THEN SuccessValue(images[i])
                    ELSE FailureString(LastCall(i).body)

C1_Witness ==
    /\ bpc = "returned" /\ mode = "image" /\ Len(images) >= 2
    /\ images[1] # images[2]
    /\ Len(Calls(1)) = 3 /\ LastCall(1).kind = "error"
    /\ Len(Calls(2)) = 2 /\ LastCall(2).kind = "ok"

\* C2: an assembly called with lists of different lengths fails and writes
\* no file.
C2_RejectsMisaligned ==
    (apc # "idle" /\ Len(original_images) # Len(image_translations)) =>
        (apc = "raised" /\ written = <<>>)

InFlight == {i \in DOMAIN tasks : tasks[i].st \in {"calling", "sleeping"}}

\* C3: in both modes, at every moment at most 10 image tasks have started
\* and are not yet resolved.
C3_CeilingHolds == Cardinality(InFlight) <= max_workers

\* C4: the batch never ends by an exception; in a returned batch the slot
\* of a failed image holds a failure string and the slot of every other
\* image holds the value that depends on that image alone; failures among
\* the tasks never leave the batch unable to go on.
C4_FailuresStayLocal ==
    /\ bpc \in {"idle", "running", "returned"}
    /\ bpc = "running" => ENABLED Next
    /\ bpc = "returned" =>
          \A i \in 1..Len(images) :
              IF tasks[i].st = "raised"
              THEN /\ processed_results[i].type = "str"
                   /\ Head(processed_results[i].chars) = T("translate failed: ")
              ELSE processed_results[i] = SuccessValue(images[i])

C4_Witness ==
    /\ bpc = "returned" /\ mode = "text" /\ Len(images) >= 2
    /\ tasks[1].st = "raised"
    /\ \A i \in 2..Len(images) : tasks[i].st = "returned"

\* C5: in both modes a task whose call fails with a transient error waits
\* 1 second and calls again, after a second transient failure waits 2
\* seconds and calls a third time, and resolves to the success value when
\* the third call succeeds.
C5_BackoffSchedule ==
    \A i \in DOMAIN tasks :
        LET tr == trace[i]
        IN  /\ (Len(tr) >= 1 /\ IsTransientFailure(tr[1])) =>
                  /\ ~(Resolved(i) /\ Len(tr) = 1)
                  /\ Len(tr) >= 2 => tr[2] = SleepEvent(1)
            /\ (Len(tr) >= 3 /\ IsTransientFailure(tr[1]) /\ IsTransientFailure(tr[3])) =>
                  /\ ~(Resolved(i) /\ Len(tr) = 3)
                  /\ Len(tr) >= 4 => tr[4] = SleepEvent(2)
            /\ (Len(tr) >= 5 /\ IsTransientFailure(tr[1]) /\ IsTransientFailure(tr[3])
                    /\ tr[5].ev = "call" /\ tr[5].kind = "ok") =>
                  /\ tasks[i].st = "returned"
                  /\ tasks[i].value = SuccessValue(images[i])

\* C6: every task makes at most 3 client calls and a resolved task at
\* least one; a call that is not the first of its image comes directly
\* after a backoff that followed a transient failure of the same image, so
\* no call follows a success or a permanent failure.
C6_CallDiscipline ==
    \A i \in DOMAIN tasks :
        LET tr == trace[i]
        IN  /\ Len(Calls(i)) <= 3
            /\ Resolved(i) => Len(Calls(i)) >= 1
            /\ \A p \in 2..Len(tr) :
                  tr[p].ev = "call" =>
                      /\ p >= 3
                      /\ tr[p - 1].ev = "sleep"
                      /\ IsTransientFailure(tr[p - 2])

C6_Witness ==
    \E i \in DOMAIN tasks :
        /\ Len(Calls(i)) = 3 /\ tasks[i].st = "returned"
        /\ bpc = "returned" /\ client = "any"

\* C7: a resolved task all of whose calls failed with a transient error
\* made exactly 3 calls, the third one last with no wait after it, and
\* ended in a failure string.
C7_ExhaustionFails ==
    \A i \in DOMAIN tasks :
        (Resolved(i) /\ \A k \in 1..Len(Calls(i)) : IsTransientFailure(Calls(i)[k])) =>
            /\ Len(Calls(i)) = 3
            /\ trace[i][Len(trace[i])].ev = "call"
            /\ tasks[i].st = "raised"
            /\ bpc = "returned" =>
                  processed_results[i] = FailureString(LastCall(i).body)

IsPermanentFailure(e) == e.ev = "call" /\ e.kind = "error" /\ e.body \notin TransientClass

\* C8: a task whose first call fails with an error outside the transient
\* class makes that one call only, sleeps for no backoff, is resolved by it
\* and gives a failure string.
C8_PermanentNoRetry ==
    \A i \in DOMAIN tasks :
        (trace[i] # <<>> /\ IsPermanentFailure(trace[i][1])) =>
            /\ trace[i] = <<trace[i][1]>>
            /\ tasks[i].st = "raised"
            /\ bpc = "returned" =>
                  processed_results[i] = FailureString(trace[i][1].body)

C8_Witness ==
    /\ bpc = "returned" /\ mode = "image"
    /\ \E i \in DOMAIN tasks : trace[i] = <<CallEvent(Error(AuthErrorMsg))>>

(* the assembler's contract, in the spec's terms *)
Aligned == Len(original_images) = Len(image_translations)

TokenStem(image) ==
    <<"image-", ToString(image.position.page), "-", ToString(image.position.index),
      "-", ToString(image.position.xref)>>

TokenRef(image) == Img(TokenStem(image) \o <<".png">>, TokenStem(image) \o <<".png">>)

AssetRef(image) ==
    Img(TokenStem(image) \o <<"-original">>,
        <<"assets/">> \o TokenStem(image) \o <<"-original.", image.format>>)

\* the caller contract of the spec: position fields unique per image
DistinctTokens ==
    \A i, j \in 1..Len(original_images) :
        i # j => TokenStem(original_images[i]) # TokenStem(original_images[j])

Owner(token) == {i \in 1..Len(original_images) : token = TokenRef(original_images[i])}

\* what stands for a marker of image i: the reference to its saved asset,
\* in the Translated section followed by the label line and its translation
Block(i, section) ==
    IF section = "original" THEN <<AssetRef(original_images[i])>>
    ELSE <<AssetRef(original_images[i]), T("\n\n**image translation:** \n")>>
             \o image_translations[i].chars

\* every marker occurrence of a listed image rewritten at once
RECURSIVE Rewritten(_, _)
Rewritten(text, section) ==
    IF text = <<>> THEN <<>>
    ELSE (IF Owner(Head(text)) = {} THEN <<Head(text)>>
          ELSE Block(CHOOSE i \in Owner(Head(text)) : TRUE, section))
         \o Rewritten(Tail(text), section)

Assembled == apc = "returned" /\ Aligned /\ DistinctTokens

\* C9: in the output assembled from lists of equal length with distinct
\* position fields, the Translated section is translated_text with every
\* marker occurrence of a listed image replaced by the reference
\* to its saved original asset, the label line and its translation text.
C9_TranslatedRewritten ==
    Assembled =>
        processed_translated_content = Rewritten(translated_content, "translated")

TaskStep(j) ==
    \/ TextTaskStart(j)
    \/ TextTaskAcquire(j)
    \/ \E o \in ClientOutcomes(images[j]) : TextTaskResume(j, o)
    \/ ImageCallStart(j)
    \/ \E o \in ClientOutcomes(images[j]) : ImageTaskRun(j, o)

OtherCanAct(i) == \E j \in DOMAIN tasks \ {i} : ENABLED TaskStep(j)

\* C13: in both modes, while a task is inside its client call and another
\* task of the batch is not yet resolved, some other task can take a step
\* (start its call, or complete it).
C13_CallsOverlap ==
    \A i \in DOMAIN tasks :
        (bpc = "running" /\ tasks[i].st = "calling"
            /\ \E j \in DOMAIN tasks \ {i} : ~Resolved(j)) => OtherCanAct(i)

\* the wait that follows the k-th call of a task
BackoffAfter(k) == SleepEvent(delay * Pow2(k - 1))

\* the events and the status of task j follow from the outcomes of its own
\* calls alone
OwnSchedule(j) ==
    LET tr == trace[j]
        last == tr[Len(tr)]
    IN  /\ \A p \in 1..Len(tr) :
              IF p % 2 = 1 THEN tr[p].ev = "call"
              ELSE /\ tr[p] = BackoffAfter(p \div 2)
                   /\ IsRetryable(tr[p - 1].body) /\ tr[p - 1].kind = "error"
        /\ IF tr = <<>> THEN tasks[j].st \in {"created", "calling"}
           ELSE IF last.ev = "sleep" THEN tasks[j].st \in {"sleeping", "calling"}
           ELSE IF last.kind = "ok"
           THEN tasks[j].st = "returned" /\ tasks[j].value = SuccessValue(images[j])
           ELSE /\ tasks[j].st = "raised" /\ tasks[j].value = Str(last.body)
                /\ ~IsRetryable(last.body) \/ Len(Calls(j)) = max_retries

\* C14: while a task of the image mode waits out a backoff and a sibling
\* has not begun or is inside a call, some sibling can take a step; and the
\* calls, waits and result of every task are fixed by the outcomes of its
\* own calls.
C14_BackoffNonBlocking ==
    (bpc # "idle" /\ mode = "image") =>
        /\ \A i \in DOMAIN tasks :
              (bpc = "running" /\ tasks[i].st = "sleeping"
                  /\ \E j \in DOMAIN tasks \ {i} : tasks[j].st \in {"created", "calling"})
                  => OtherCanAct(i)
        /\ \A j \in DOMAIN tasks : OwnSchedule(j)

C14_Witness ==
    /\ bpc = "returned" /\ mode = "image" /\ Len(images) >= 2
    /\ Len(Calls(1)) = 3
    /\ trace[2] = <<CallEvent(Ok(Completion(images[2])))>>

(* permits of the text mode's semaphore that are taken *)
Held == SemaphorePermits - semaphore.value

C15_Permits ==
    (bpc # "idle" /\ mode = "text") =>
        /\ Held = Cardinality({i \in DOMAIN tasks : tasks[i].st = "calling"})
        /\ Held >= 0 /\ Held <= SemaphorePermits
        /\ \A i \in DOMAIN tasks :
              /\ tasks[i].st = "semwait" <=>
                    \E k \in 1..Len(semaphore.waiters) : semaphore.waiters[k] = i
              /\ trace[i] # <<>> => Resolved(i)
        /\ bpc = "returned" => (Held = 0 /\ semaphore.waiters = <<>>)

C15_OneTaskPerStep ==
    (bpc = "running" /\ bpc' = "running" /\ mode = "text") =>
        \E i \in DOMAIN tasks :
            /\ \A j \in DOMAIN tasks \ {i} : tasks'[j] = tasks[j] /\ trace'[j] = trace[j]
            /\ semaphore'.value - semaphore.value \in {-1, 0, 1}
            /\ UNCHANGED <<images, client, processed_results>>

\* C15: in the text mode a step of a task changes that task and the
\* semaphore only; the permits taken are one per task inside its client
\* call, never more than 10, a task that ended by success or by failure
\* holds none, and none is taken once the batch has returned.
C15_PermitDiscipline == []C15_Permits /\ [][C15_OneTaskPerStep]_vars

C15_Witness ==
    /\ bpc = "returned" /\ mode = "text" /\ Len(images) > SemaphorePermits
    /\ \E i \in DOMAIN tasks : tasks[i].st = "raised"
    /\ Held = 0

AllResolved == \A i \in DOMAIN tasks : Resolved(i)

\* C16: when every client call returns or raises, a submitted batch
\* returns in the end, with every task resolved to a success value or a
\* failure; no result list exists before all N tasks are resolved.
C16_RunsToCompletion ==
    /\ (bpc = "running") ~> (bpc = "returned")
    /\ [](bpc = "returned" =>
            /\ AllResolved
            /\ Len(processed_results) = N
            /\ \A i \in 1..N :
                  processed_results[i] \in
                      {SuccessValue(images[i]), FailureString(LastCall(i).body)})
    /\ [](~AllResolved => processed_results = <<>>)

C16_Witness ==
    /\ bpc = "returned" /\ Len(images) >= 2
    /\ tasks[1].st = "raised" /\ tasks[2].st = "returned"
    /\ Len(Calls(1)) = max_retries

AnyCallOutstanding == \E i \in DOMAIN tasks : tasks[i].st = "calling"

\* C17: a batch with a client call outstanding returns in the end even
\* when the backend never answers: the per-call timeout ends the call.
C17_HangResolved == AnyCallOutstanding ~> (bpc = "returned")

(* the translate pipeline, in the spec's terms *)
ContainsSeq(text, part) ==
    \E k \in 1..(Len(text) - Len(part) + 1) : SubSeq(text, k, k + Len(part) - 1) = part

Occurs(token, text) == \E k \in 1..Len(text) : text[k] = token

IsFailureString(value) ==
    value.type = "str" /\ value.chars # <<>> /\ Head(value.chars) = T("translate failed: ")

\* what the Translated section shows for image i of the request when its
\* translation failed
FailureBlock(i) ==
    <<AssetRef(extracted_images[i]), T("\n\n**image translation:** \n")>>
        \o processed_results[i].chars

\* the images of the request whose translation failed and whose marker the
\* translated text has
ShownFailures ==
    {i \in 1..Len(extracted_images) :
        /\ bpc = "returned" /\ requests > 0
        /\ IsFailureString(processed_results[i])
        /\ HasMarkerFields(extracted_images[i].position)
        /\ Occurs(TokenRef(extracted_images[i]), translated_text)}

OutputFiles ==
    {k \in 1..Len(device_dir) : device_dir[k].key = TranslatedFilename(file_path)}

\* C11: when the batch result of image i is a failure string and the
\* translated text has image i's marker, the translate request does not
\* fail, and its Translated section and the output file it writes show
\* image i's original-image reference, the label and the failure string.
C11_FailureVisible ==
    \A i \in ShownFailures :
        /\ tpc # "failed"
        /\ tpc \in {"combined", "done"} =>
              ContainsSeq(processed_translated_content, FailureBlock(i))
        /\ tpc = "done" =>
              /\ response = 200
              /\ \E k \in OutputFiles :
                    ContainsSeq(device_dir[k].value.text,
                                <<T("\n\n## translated content\n")>>
                                    \o processed_translated_content)

C11_Witness ==
    /\ tpc = "done" /\ Len(extracted_images) = 2
    /\ ShownFailures = {1}

\* the text has, in the order of the list, the Markdown reference of the
\* marker of every image from the i-th on, at or after position from
RECURSIVE MarkersFrom(_, _, _, _)
MarkersFrom(text, imgs, i, from) ==
    IF i > Len(imgs) THEN TRUE
    ELSE /\ HasMarkerFields(imgs[i].position)
         /\ \E k \in from..Len(text) :
               /\ text[k] = TokenRef(imgs[i])
               /\ MarkersFrom(text, imgs, i + 1, k + 1)

\* C12: the text a reader returns has the marker reference of every image
\* of the returned list, in the order of the list.
C12_MarkersInText == MarkersFrom(doc_content, extracted_images, 1, 1)

WrittenBy(who) ==
    {k \in 1..Len(fs_log) : fs_log[k].by = who /\ fs_log[k].request = requests}

BothResultsExist ==
    /\ translated_text # <<>>
    /\ extracted_images # <<>> =>
          (bpc = "returned" /\ Len(processed_results) = Len(extracted_images))

\* C18: in a translate request the assembler has not started, and no asset
\* file and no output file has been written, unless the translated text
\* and the result list of the image batch both exist.
C18_BothResultsFirst ==
    (requests > 0 /\ (apc # "idle"
                        \/ WrittenBy("combine_document_with_images") # {}
                        \/ WrittenBy("translate_document") # {}))
        => BothResultsExist

C18_Witness ==
    /\ tpc = "done" /\ Len(extracted_images) = 2
    /\ Cardinality(WrittenBy("combine_document_with_images")) = 2
    /\ Cardinality(WrittenBy("translate_document")) = 1

\* C19: a translate request that failed (in the lookup, the extraction,
\* the text translation or the assembly) is answered with the error and
\* has written no output file.
C19_NoOutputOnFailure ==
    tpc = "failed" =>
        /\ response = 500
        /\ WrittenBy("translate_document") = {}

\* a request fails after an earlier one has written the document's output
C19_Witness ==
    /\ tpc = "failed" /\ file_path # <<>>
    /\ OutputFiles # {}

AssetWrites == {k \in 1..Len(fs_log) : fs_log[k].by = "combine_document_with_images"}

\* C20: no asset path is written twice, whatever the translate requests.
C20_AssetsWrittenOnce ==
    \A k, l \in AssetWrites : fs_log[k].path = fs_log[l].path => k = l

(* the marker token as a Python str *)
RECURSIVE JoinStr(_)
JoinStr(fragments) ==
    IF fragments = <<>> THEN "" ELSE Head(fragments) \o JoinStr(Tail(fragments))

SameFields(p, q) == p.page = q.page /\ p.index = q.index /\ p.xref = q.xref

ImgTokens(text) == SelectSeq(text, LAMBDA t : t.kind = "img")

\* C21: two images get the same token exactly when their page, index and
\* xref are equal, the assembler's substitution map has one entry per
\* distinct token, and the k-th reference the PDF reader wrote into the
\* text is the token the assembler derives for the k-th image.
C21_TokenOfPosition ==
    /\ (apc = "returned" /\ Len(original_images) = 2) =>
          LET p == original_images[1].position
              q == original_images[2].position
          IN  /\ SameFields(p, q) <=> JoinStr(ImgKey(p)) = JoinStr(ImgKey(q))
              /\ Len(image_map) = IF SameFields(p, q) THEN 1 ELSE 2
    /\ tpc = "read_returned" =>
          /\ Len(ImgTokens(doc_content)) = Len(extracted_images)
          /\ \A k \in 1..Len(extracted_images) :
                /\ JoinStr(ImgTokens(doc_content)[k].a) =
                      JoinStr(ImgKey(extracted_images[k].position))
                /\ ImgTokens(doc_content)[k].b = ImgTokens(doc_content)[k].a

C21_Witness ==
    /\ apc = "returned" /\ tpc = "idle" /\ Len(original_images) = 2
    /\ original_images[1].position = PdfPosition(1, 11, 2)
    /\ original_images[2].position = PdfPosition(11, 1, 2)

(* colliding tokens *)
AllHaveFields == \A i \in 1..Len(original_images) : HasMarkerFields(original_images[i].position)

Collides(i, j) ==
    i # j /\ SameFields(original_images[i].position, original_images[j].position)

\* the last image of the list with the token of image i
LastWith(i) ==
    CHOOSE j \in 1..Len(original_images) :
        /\ SameFields(original_images[i].position, original_images[j].position)
        /\ \A l \in (j + 1)..Len(original_images) : ~Collides(j, l)

\* one entry per token, at the place of the token's first image, with the
\* file and the translation of its last image
LastWinsMap ==
    LET first == SelectSeq([k \in 1..Len(original_images) |-> k],
                           LAMBDA k : \A l \in 1..(k - 1) : ~Collides(l, k))
    IN  [e \in 1..Len(first) |->
            LET w == LastWith(first[e])
                token == TokenStem(original_images[w]) \o <<".png">>
            IN  [key |-> token,
                 original |-> TokenStem(original_images[w])
                                  \o <<"-original.", original_images[w].format>>,
                 translation |-> image_translations[w],
                 position |-> original_images[w].position]]

\* C22: when images of an aligned list have equal page, index and xref,
\* assembly returns; the substitution map has one entry for the token, at
\* the place of the first of these images and with the saved file and the
\* translation of the last; both sections are rewritten with that entry;
\* the file of every image is written.
C22_LaterImageWins ==
    (apc # "idle" /\ Aligned /\ AllHaveFields
        /\ \E i, j \in 1..Len(original_images) : Collides(i, j)) =>
        /\ apc = "returned"
        /\ image_map = LastWinsMap
        /\ processed_original_content = ReplaceOriginal(original_content, LastWinsMap, 1)
        /\ processed_translated_content = ReplaceTranslated(translated_content, LastWinsMap, 1)
        /\ \A k \in 1..Len(processed_original_content) :
              \A i \in 1..Len(original_images) :
                  /\ processed_original_content[k] # TokenRef(original_images[i])
                  /\ processed_original_content[k] = AssetRef(original_images[i])
                        => original_images[i].format = original_images[LastWith(i)].format
        /\ Len(written) = Len(original_images)
        /\ \A i \in 1..Len(original_images) :
              written[i].data = original_images[i].image_data

C22_Witness ==
    /\ apc = "returned" /\ original_images = <<ImageA, ImageC>>
    /\ Len(image_translations) = 2
    /\ image_translations[1] # image_translations[2]
    /\ Occurs(Marker(KeyA), translated_content)
    /\ Occurs(Marker(KeyA), original_content)

(* an image whose marker a text does not have *)
SectionText(section) ==
    IF section = "original" THEN original_content ELSE translated_content

Processed(section) ==
    IF section = "original" THEN processed_original_content
    ELSE processed_translated_content

\* the substitution map without the entry of image i's token
MapWithout(i) ==
    SelectSeq(image_map, LAMBDA e : e.key # TokenStem(original_images[i]) \o <<".png">>)

ReplaceIn(section, text, map) ==
    IF section = "original" THEN ReplaceOriginal(text, map, 1)
    ELSE ReplaceTranslated(text, map, 1)

\* C23: when the marker reference of image i of an aligned list does not
\* occur in the text of a section, assembly returns, the section has no
\* reference to image i's asset and is rewritten for the other images as
\* it is without image i, and a text with no marker at all is unchanged.
C23_UnreferencedImage ==
    (apc # "idle" /\ Aligned /\ AllHaveFields) =>
        \A section \in {"original", "translated"} :
            \A i \in 1..Len(original_images) :
                ~Occurs(TokenRef(original_images[i]), SectionText(section)) =>
                    /\ apc = "returned"
                    /\ ~Occurs(AssetRef(original_images[i]), Processed(section))
                    /\ Processed(section) =
                          ReplaceIn(section, SectionText(section), MapWithout(i))
                    /\ ImgTokens(SectionText(section)) = <<>> =>
                          Processed(section) = SectionText(section)

C24_NewRecord ==
    (bpc # "idle" /\ mode = "image") =>
        \A i \in DOMAIN tasks :
            tasks[i].st = "returned" =>
                /\ tasks[i].value.type = "ImageInfo"
                /\ tasks[i].value.image_data = images[i].image_data
                /\ tasks[i].value.position = images[i].position
                /\ tasks[i].value.format = images[i].format
                /\ tasks[i].value.image_id = images[i].image_id \o <<"_translated">>
                /\ bpc = "returned" => processed_results[i] = tasks[i].value

C24_InputKept == (bpc # "idle" /\ bpc' # "idle") => images' = images

\* C24: in the image mode a successful task gives a record with the bytes,
\* position and format of its input image and the input's id followed by
\* "_translated"; from the submission of a batch on, the input records
\* stay as they were.
C24_TranslatedRecord == []C24_NewRecord /\ [][C24_InputKept]_vars

C24_Witness ==
    /\ bpc = "returned" /\ mode = "image" /\ Len(images) = 2
    /\ tasks[1].st = "returned" /\ tasks[2].st = "raised"
    /\ images[1] = ImageB

C26_FieldsRequired ==
    /\ (apc \in {"returned", "raised"} /\ ~AllHaveFields) =>
           (apc = "raised" /\ markdown_content = <<>>)
    /\ (tpc \in {"done", "failed"} /\ apc # "idle" /\ ~AllHaveFields) =>
           (tpc = "failed" /\ bpc = "returned" /\ response = 500)

Reversed(seq) == [k \in 1..Len(seq) |-> seq[Len(seq) + 1 - k]]

\* the document the assembler returns for the same texts with the image
\* list and the translation list in the opposite order
AssembledReversed ==
    LET saved == SaveImages(Reversed(original_images), Reversed(image_translations), 1,
                            [image_map |-> <<>>, written |-> <<>>, raised |-> FALSE])
    IN  Markdown(ReplaceOriginal(original_content, saved.image_map, 1),
                 ReplaceTranslated(translated_content, saved.image_map, 1))

\* C27: in the output assembled from lists of equal length with distinct
\* position fields, the translation text of every image whose marker is in
\* translated_text stands verbatim after its asset reference and label in
\* the Translated section, and the document is the one the reversed lists
\* give, also when a translation text holds the marker of another image.
C27_NoInterference ==
    Assembled =>
        /\ \A i \in 1..Len(original_images) :
               Occurs(TokenRef(original_images[i]), translated_content) =>
                   ContainsSeq(processed_translated_content, Block(i, "translated"))
        /\ markdown_content = AssembledReversed

\* C28: every element of the list translate_images_image_batch returns is
\* an ImageInfo record, whatever tasks succeeded and failed.
C28_AllImageRecords ==
    (bpc = "returned" /\ mode = "image") =>
        \A i \in 1..Len(processed_results) : processed_results[i].type = "ImageInfo"

\* the file a translate or summarize request has looked up
LookedUp == file_path # <<>> /\ requests > 0 /\ tpc # "idle"

StoredByUpload(path) ==
    \E k \in 1..Len(fs_log) : fs_log[k].path = path /\ fs_log[k].by = "upload_file"

\* C29: the file a translate or summarize request reads is the file the
\* upload stored for the file_id, never an output a translate or summarize
\* request wrote for it.
C29_ReadsUploadedFile ==
    LookedUp =>
        /\ StoredByUpload(file_path)
        /\ \A k \in 1..Len(fs_log) :
               fs_log[k].by \in {"translate_document", "summarize_document"} =>
                   fs_log[k].path # file_path

\* C30: a lookup that matches no file is answered with status 404 and an
\* upload with an unsupported extension with status 400.
C30_ClientErrorsKept ==
    /\ caught = HTTPException(404) => response = 404
    /\ caught = HTTPException(400) => response = 400

====
